---- MODULE Spec2Model ----
(***************************************************************************)
(* BOM Builder (parts_bom_streamlit_app.py): the SQLite store (parts,      *)
(* boms, bom_items), the Streamlit session state and the handlers of the   *)
(* three tabs, with the BOM pricing block of TAB_BOM.                      *)
(*                                                                         *)
(* Numbers.  REAL columns and st.number_input values are decimal fixed     *)
(* point: money (unitPrice, unitPricePerKWh, unitPricePerYear,             *)
(* displayUnitPrice) is counted in 1/One of a currency unit, quantities    *)
(* (qty, proj_kwh, proj_years) in 1/QtyOne; amount and total are whole     *)
(* currency units.  A NULL / NaN / None cell is <<>>, a present value v is *)
(* <<v>>.  Columns that no modelled handler reads (manufacturer, category, *)
(* category1, category2, unit, notes, refCapacityKWh, altText, boms.name,  *)
(* boms.createdAt) are left out.                                           *)
(***************************************************************************)
EXTENDS Integers, Sequences, FiniteSets, TLC

\* ---------------------------------------------------------------- bounds
MoneyDigits == 3
QtyOne == 2
MaxLines == 2
MaxParts == 2
MaxBomRows == 3
MaxRows == 2

\* ------------------------------------------------------ program constants
PriceDecimals == 2
AmountDecimals == 0

RECURSIVE Pow10(_)
Pow10(n) == IF n = 0 THEN 1 ELSE 10 * Pow10(n - 1)

One == Pow10(MoneyDigits)
PriceStep == One \div Pow10(PriceDecimals)
AmountStep == One * Pow10(AmountDecimals)

NULL == <<>>
Some(v) == <<v>>
fillna0(x) == IF x = NULL THEN 0 ELSE x[1]

\* numpy.round / numpy.rint: to the nearest multiple of d, a tie to the even one
RoundHalfEven(n, d) ==
    LET q == n \div d
        r == n % d
    IN  IF 2 * r < d THEN q
        ELSE IF 2 * r > d THEN q + 1
        ELSE IF q % 2 = 0 THEN q ELSE q + 1

\* (rate * x).round(2): rate in 1/One, x in 1/QtyOne, result in 1/One
Round2Floor(rate, x) == ((rate * x) \div (PriceStep * QtyOne)) * PriceStep
Round2(rate, x) == RoundHalfEven(rate * x, PriceStep * QtyOne) * PriceStep

\* (display * qty).round(0): result in whole currency units
Round0Floor(d, q) == (d * q) \div (AmountStep * QtyOne)
Round0(d, q) == RoundHalfEven(d * q, AmountStep * QtyOne)

\* Series.astype(str).str.lower() on the pricingModel column
AsStr(x) == IF x = NULL THEN "None" ELSE x[1]
Lower(s) ==
    CASE s = "PER_KWH" -> "per_kwh"
      [] s = "Per_Year" -> "per_year"
      [] s = "None" -> "none"
      [] s = "A1" -> "a1"
      [] s = "X" -> "x"
      [] OTHER -> s

\* ------------------------------------------------------------------ state
VARIABLES
    parts,              \* table parts: set of rows
    part_seq,           \* AUTOINCREMENT counter of parts.id
    boms,               \* table boms: set of ids
    bom_items,          \* table bom_items: set of rows
    item_seq,           \* AUTOINCREMENT counter of bom_items.id
    pending_import,     \* st.session_state["pending_import"]: NULL or <<df>>
    allow_update,       \* st.session_state["allow_update"]
    confirm,            \* the confirm checkbox of TAB_INGEST
    target_bom_id,      \* number_input widgets of TAB_BOM
    proj_kwh,
    proj_years,
    override_rate,
    out,                \* what the last script run rendered in TAB_BOM
    log,                \* backup / call / write events of the last handler
    op,                 \* the handler the last script run executed
    added               \* history: bom_items ids in the order add_item made them

vars == <<parts, part_seq, boms, bom_items, item_seq, pending_import, allow_update, confirm, target_bom_id, proj_kwh,
          proj_years, override_rate, out, log, op, added>>

\* --------------------------------------------------------- input domains
Money(n, d) == (n * One) \div d
Qty(n, d) == (n * QtyOne) \div d

KwhInputs == {0, Qty(1, 2), Qty(1000, 1)}
YearInputs == {0, Qty(3, 1)}
OverrideInputs == {0, Money(1, 10)}
QtyInputs == {Qty(1, 1), Qty(2, 1), Qty(3, 2)}
QtyEdits == {Qty(2, 1)}

Row(no, desc, model, price, kwh, year) ==
    [partNo |-> no, description |-> desc, pricingModel |-> model,
     unitPrice |-> price, unitPricePerKWh |-> kwh, unitPricePerYear |-> year]

\* the catalogue the pricing specification prices against
PriceCatalog ==
    << Row("K1", Some("ems"), Some("per_kwh"), NULL, Some(Money(5, 100)), NULL),
       Row("K2", Some("ems"), Some("PER_KWH"), Some(Money(7, 1)), Some(Money(15, 1000)), NULL),
       Row("K3", Some("ems"), Some("per_kwh"), NULL, NULL, NULL),
       Row("Y1", Some("lic"), Some("per_year"), NULL, NULL, Some(Money(1200, 1))),
       Row("Y2", Some("lic"), Some("Per_Year"), Some(Money(9, 1)), NULL, Some(Money(125, 1000))),
       Row("F1", Some("box"), Some("fixed"), Some(Money(5, 2)), NULL, NULL),
       Row("F2", Some("box"), Some("fixed"), NULL, Some(Money(1, 1)), Some(Money(1, 1))),
       Row("U1", Some("box"), Some("rental"), Some(Money(333, 1000)), Some(Money(1, 1)), NULL),
       Row("U2", Some("box"), NULL, Some(Money(100, 1)), NULL, Some(Money(1, 1))) >>

WithId(r, i) ==
    [id |-> i, partNo |-> r.partNo, description |-> r.description,
     pricingModel |-> r.pricingModel, unitPrice |-> r.unitPrice,
     unitPricePerKWh |-> r.unitPricePerKWh, unitPricePerYear |-> r.unitPricePerYear]

\* ------------------------------------------------------------ the store
RECURSIVE SortById(_)
SortById(S) ==
    IF S = {} THEN <<>>
    ELSE LET m == CHOOSE x \in S : \A y \in S : x.id <= y.id
         IN  <<m>> \o SortById(S \ {m})

JoinRow(bi, p) ==
    [itemId |-> bi.id, bomId |-> bi.bomId, partId |-> bi.partId, qty |-> bi.qty,
     partNo |-> p.partNo, description |-> p.description,
     pricingModel |-> p.pricingModel, unitPrice |-> p.unitPrice,
     unitPricePerKWh |-> p.unitPricePerKWh, unitPricePerYear |-> p.unitPricePerYear]

RECURSIVE SortByPart(_)
SortByPart(S) ==
    IF S = {} THEN <<>>
    ELSE LET m == CHOOSE x \in S : \A y \in S :
                     x.partId < y.partId \/ (x.partId = y.partId /\ x.id <= y.id)
         IN  <<m>> \o SortByPart(S \ {m})

\* SELECT ... FROM bom_items bi JOIN parts p ON p.id = bi.partId
\* WHERE bi.bomId = ? ORDER BY bi.id ASC
ItemOrderByPart(S) == SortByPart(S)
ItemOrder(S) == SortById(S)
list_bom_items(P, I, bom_id) ==
    LET hit == {bi \in I : bi.bomId = bom_id /\ \E p \in P : p.id = bi.partId}
        ord == ItemOrder(hit)
    IN  [i \in 1..Len(ord) |->
            JoinRow(ord[i], CHOOSE p \in P : p.id = ord[i].partId)]

\* ---------------------------------------------------- TAB_BOM pricing block
IsModel(r, name) == Lower(AsStr(r.pricingModel)) = name
per_mask(r, kwh) == IsModel(r, "per_kwh") /\ kwh > 0
py_mask(r, years) == IsModel(r, "per_year") /\ years > 0

\* (base_rate * proj_kwh).round(2) with base_rate the unitPricePerKWh column
KwhPrice(r, kwh) ==
    IF r.unitPricePerKWh = NULL THEN NULL
    ELSE Some(Round2(r.unitPricePerKWh[1], kwh))

\* (df.loc[py_mask, "unitPricePerYear"] * proj_years).round(2)
YearPrice(r, years) ==
    IF r.unitPricePerYear = NULL THEN NULL
    ELSE Some(Round2(r.unitPricePerYear[1], years))

displayUnitPrice(r, kwh, years) ==
    LET d0 == r.unitPrice
        d1 == IF per_mask(r, kwh) THEN KwhPrice(r, kwh) ELSE d0
    IN  IF py_mask(r, years) THEN YearPrice(r, years) ELSE d1

amount(d, qty) == Round0(fillna0(d), qty)

PriceRow(r, kwh, years) ==
    LET d == displayUnitPrice(r, kwh, years)
    IN  [itemId |-> r.itemId, partNo |-> r.partNo, description |-> r.description,
         pricingModel |-> r.pricingModel, unitPrice |-> r.unitPrice,
         unitPricePerKWh |-> r.unitPricePerKWh,
         unitPricePerYear |-> r.unitPricePerYear,
         qty |-> r.qty, displayUnitPrice |-> d, amount |-> amount(d, r.qty)]

RECURSIVE SumAmount(_)
SumAmount(df) ==
    IF df = <<>> THEN 0 ELSE Head(df).amount + SumAmount(Tail(df))

\* export_df = df[out_cols].rename(columns={"displayUnitPrice": "unitPrice"})
ExportRow(r) ==
    [partNo |-> r.partNo, description |-> r.description,
     unitPrice |-> r.displayUnitPrice, qty |-> r.qty, amount |-> r.amount]
export_df(df) == [i \in 1..Len(df) |-> ExportRow(df[i])]

\* override_rate > 0 rebinds base_rate to the number_input's Python float, so
\* (base_rate * proj_kwh) is a float, and float has no method round:
\* line 511 raises AttributeError before any row is priced.
ScalarRoundRaises(ovr) == ovr > 0

Rendered(status, df, total) ==
    [status |-> status, df |-> df, export |-> export_df(df), total |-> total]

PricingBlock(df_items, kwh, years, ovr) ==
    IF ScalarRoundRaises(ovr)
    THEN Rendered("AttributeError", <<>>, NULL)
    ELSE LET df == [i \in 1..Len(df_items) |-> PriceRow(df_items[i], kwh, years)]
         IN  Rendered("priced", df, Some(SumAmount(df)))

\* lines 501-566: what TAB_BOM shows for the widgets' values, read from the
\* tables P (parts) and I (bom_items) as they are when the script gets there
TabBom(P, I, target, kwh, years, ovr) ==
    IF target > 0
    THEN LET df_items == list_bom_items(P, I, target)
         IN  IF df_items /= <<>>
             THEN PricingBlock(df_items, kwh, years, ovr)
             ELSE Rendered("no_items", <<>>, NULL)
    ELSE Rendered("no_bom", <<>>, NULL)

\* ------------------------------------------------------------ script runs
\* Every user event reruns the script top to bottom: the handler of the
\* clicked button runs where the script reaches it, and TAB_BOM (lines
\* 501-566) renders from the tables as they are at that point.
Render(P, I, target) == TabBom(P, I, target, proj_kwh, proj_years, override_rate)

\* init_db() (line 260) creates parts_bom.db at the top of every run
DbFileExists == TRUE

\* backup_db_file(): the events it appends to the run's log
backup_db_file == IF DbFileExists THEN <<"backup">> ELSE <<>>

\* sqlite3.connect() leaves PRAGMA foreign_keys off, and get_conn() never
\* turns it on: the ON DELETE CASCADE clauses of bom_items are not enforced
ForeignKeysOn == FALSE

\* the dedup key of insert_parts: partNo.lower() + "|" + description.lower()
KeyOf(r) == <<Lower(r.partNo), Lower(AsStr(r.description))>>

RECURSIVE SelectRows(_, _)
SelectRows(df, K) ==
    IF df = <<>> THEN <<>>
    ELSE IF KeyOf(Head(df)) \in K THEN SelectRows(Tail(df), K)
         ELSE <<Head(df)>> \o SelectRows(Tail(df), K)

\* insert_parts(df) with chk the value its permission checkbox returns:
\* the tables and session state after the call, the count it returns and
\* the events it logs
insert_parts(df, chk) ==
    IF ~allow_update /\ ~chk
    THEN [parts |-> parts, part_seq |-> part_seq, allow_update |-> FALSE,
          n |-> 0, log |-> <<"insert_parts">>]
    ELSE LET exist == {KeyOf(p) : p \in parts}
             new == IF parts /= {} THEN SelectRows(df, exist) ELSE df
         IN  IF new = <<>>
             THEN [parts |-> parts, part_seq |-> part_seq, allow_update |-> TRUE,
                   n |-> 0, log |-> <<"insert_parts">>]
             ELSE [parts |-> parts \cup
                             {WithId(new[i], part_seq + i) : i \in 1..Len(new)},
                   part_seq |-> part_seq + Len(new), allow_update |-> TRUE,
                   n |-> Len(new), log |-> <<"insert_parts", "write">>]

\* DELETE FROM parts WHERE id = ?
delete_part(part_id) ==
    [parts |-> {p \in parts : p.id /= part_id},
     bom_items |-> IF ForeignKeysOn
                   THEN {bi \in bom_items : bi.partId /= part_id}
                   ELSE bom_items]

\* INSERT INTO boms(name, createdAt): the id AUTOINCREMENT assigns
create_bom == Cardinality(boms) + 1

\* INSERT INTO bom_items(bomId, partId, qty), once per selected id
RECURSIVE add_items(_, _, _, _)
add_items(items, seq, bom_id, sel) ==
    IF sel = <<>> THEN items
    ELSE add_items(items \cup {[id |-> seq + 1, bomId |-> bom_id,
                                partId |-> Head(sel), qty |-> Qty(1, 1)]},
                   seq + 1, bom_id, Tail(sel))

\* DELETE FROM bom_items WHERE id = ?
remove_item(item_id) == {bi \in bom_items : bi.id /= item_id}

\* UPDATE bom_items SET qty = ? WHERE id = ?
update_qty(item_id, qty) ==
    {IF bi.id = item_id
     THEN [id |-> bi.id, bomId |-> bi.bomId, partId |-> bi.partId, qty |-> qty]
     ELSE bi : bi \in bom_items}

\* rows the handlers are given
StoreRows ==
    { Row("A1", Some("x"), Some("fixed"), Some(Money(5, 2)), NULL, NULL),
      Row("a1", Some("X"), Some("per_kwh"), NULL, Some(Money(5, 100)), NULL),
      Row("B2", Some("x"), Some("per_year"), NULL, NULL, Some(Money(1200, 1))) }
FormRows ==
    { Row("A1", Some("x"), Some("fixed"), Some(Money(5, 2)), NULL, NULL),
      Row("B2", Some("x"), Some("per_year"), NULL, NULL, Some(Money(1200, 1))) }
TextRows == { Row("A1", Some("x"), Some("fixed"), NULL, NULL, NULL),
              Row("B2", Some("X"), Some("fixed"), NULL, NULL, NULL) }
Frames(R, lo) == UNION {[1..n -> R] : n \in lo..MaxRows}

\* the ids a selection of the data_editor can hold: rows of read_parts()
Selections ==
    {s \in UNION {[1..n -> {p.id : p \in parts}] : n \in 1..MaxBomRows} :
        \A i, j \in 1..Len(s) : i /= j => s[i] /= s[j]}

\* lines 473, 495-499: a change of one number_input of TAB_BOM reruns the
\* script with no handler and renders TAB_BOM anew
SetTarget ==
    \E t \in {0} \cup boms :
        /\ target_bom_id' = t
        /\ out' = TabBom(parts, bom_items, t, proj_kwh, proj_years, override_rate)
        /\ log' = <<>>
        /\ op' = "widget"
        /\ UNCHANGED <<parts, part_seq, boms, bom_items, item_seq,
                       pending_import, allow_update, confirm, proj_kwh,
                       proj_years, override_rate, added>>

SetKwh ==
    \E k \in KwhInputs :
        /\ proj_kwh' = k
        /\ out' = TabBom(parts, bom_items, target_bom_id, k, proj_years, override_rate)
        /\ log' = <<>>
        /\ op' = "widget"
        /\ UNCHANGED <<parts, part_seq, boms, bom_items, item_seq,
                       pending_import, allow_update, confirm, target_bom_id,
                       proj_years, override_rate, added>>

SetYears ==
    \E y \in YearInputs :
        /\ proj_years' = y
        /\ out' = TabBom(parts, bom_items, target_bom_id, proj_kwh, y, override_rate)
        /\ log' = <<>>
        /\ op' = "widget"
        /\ UNCHANGED <<parts, part_seq, boms, bom_items, item_seq,
                       pending_import, allow_update, confirm, target_bom_id,
                       proj_kwh, override_rate, added>>

SetOverride ==
    \E o \in OverrideInputs :
        /\ override_rate' = o
        /\ out' = TabBom(parts, bom_items, target_bom_id, proj_kwh, proj_years, o)
        /\ log' = <<>>
        /\ op' = "widget"
        /\ UNCHANGED <<parts, part_seq, boms, bom_items, item_seq,
                       pending_import, allow_update, confirm, target_bom_id,
                       proj_kwh, proj_years, added>>

\* lines 265-285: the sidebar button that loads the master file
MasterLoad ==
    \E dfm \in Frames(StoreRows, 1), chk \in BOOLEAN :
        LET r == insert_parts(dfm, chk)
        IN  /\ parts = {}
            /\ r.part_seq <= MaxParts
            /\ parts' = r.parts
            /\ part_seq' = r.part_seq
            /\ allow_update' = r.allow_update
            /\ log' = r.log
            /\ op' = "master_load"
            /\ UNCHANGED <<boms, bom_items, item_seq, pending_import, confirm,
                           target_bom_id, proj_kwh, proj_years, override_rate,
                           added>>
            /\ out' = Render(parts', bom_items', target_bom_id')

\* lines 290-294: the manual backup button
ManualBackup ==
    /\ DbFileExists
    /\ log' = backup_db_file
    /\ op' = "manual_backup"
    /\ UNCHANGED <<parts, part_seq, boms, bom_items, item_seq, pending_import,
                   allow_update, confirm, target_bom_id, proj_kwh, proj_years,
                   override_rate, added>>
    /\ out' = Render(parts', bom_items', target_bom_id')

\* lines 354-376: the new-part form, submitted with a non-blank partNo
NewPartForm ==
    \E row \in FormRows, chk \in BOOLEAN :
        LET r == insert_parts(<<row>>, chk)
        IN  /\ r.part_seq <= MaxParts
            /\ parts' = r.parts
            /\ part_seq' = r.part_seq
            /\ allow_update' = r.allow_update
            /\ log' = backup_db_file \o r.log
            /\ op' = "new_part"
            /\ UNCHANGED <<boms, bom_items, item_seq, pending_import, confirm,
                           target_bom_id, proj_kwh, proj_years, override_rate,
                           added>>
            /\ out' = Render(parts', bom_items', target_bom_id')

\* lines 380-388: delete a part by id
DeletePart ==
    \E part_id \in 0..part_seq :
        LET r == delete_part(part_id)
        IN  /\ parts' = r.parts
            /\ bom_items' = r.bom_items
            /\ log' = backup_db_file \o <<"write">>
            /\ op' = "delete_part"
            /\ UNCHANGED <<part_seq, boms, item_seq, pending_import,
                           allow_update, confirm, target_bom_id, proj_kwh,
                           proj_years, override_rate, added>>
            /\ out' = Render(parts', bom_items', target_bom_id')

\* lines 411-420: candidate from an uploaded CSV / Excel file
CandidateFromFile ==
    \E df_norm \in Frames(StoreRows, 0) :
        /\ pending_import' = Some(df_norm)
        /\ log' = <<>>
        /\ op' = "candidate_file"
        /\ UNCHANGED <<parts, part_seq, boms, bom_items, item_seq, allow_update,
                       confirm, target_bom_id, proj_kwh, proj_years,
                       override_rate, added>>
        /\ out' = Render(parts', bom_items', target_bom_id')

\* lines 425-431: candidate from pasted text; an empty parse only warns
CandidateFromText ==
    \E df \in Frames(TextRows, 0) :
        /\ pending_import' = IF df = <<>> THEN pending_import ELSE Some(df)
        /\ log' = <<>>
        /\ op' = "candidate_text"
        /\ UNCHANGED <<parts, part_seq, boms, bom_items, item_seq, allow_update,
                       confirm, target_bom_id, proj_kwh, proj_years,
                       override_rate, added>>
        /\ out' = Render(parts', bom_items', target_bom_id')

\* line 438: the confirm checkbox, rendered while a candidate is pending
ToggleConfirm ==
    /\ pending_import /= NULL
    /\ confirm' = ~confirm
    /\ log' = <<>>
    /\ op' = "confirm"
    /\ UNCHANGED <<parts, part_seq, boms, bom_items, item_seq, pending_import,
                   allow_update, target_bom_id, proj_kwh, proj_years,
                   override_rate, added>>
    /\ out' = Render(parts', bom_items', target_bom_id')

\* lines 441-443: discard the candidate
DiscardCandidate ==
    /\ pending_import /= NULL
    /\ pending_import' = NULL
    /\ confirm' = FALSE
    /\ log' = <<>>
    /\ op' = "discard"
    /\ UNCHANGED <<parts, part_seq, boms, bom_items, item_seq, allow_update,
                   target_bom_id, proj_kwh, proj_years, override_rate, added>>
    /\ out' = Render(parts', bom_items', target_bom_id')

\* lines 445-452: the commit button, disabled unless confirm is checked
CommitEnabledUnconfirmed == pending_import /= NULL
CommitEnabled == pending_import /= NULL /\ confirm
CommitImport ==
    \E chk \in BOOLEAN :
        LET r == insert_parts(pending_import[1], chk)
        IN  /\ CommitEnabled
            /\ r.part_seq <= MaxParts
            /\ parts' = r.parts
            /\ part_seq' = r.part_seq
            /\ allow_update' = r.allow_update
            /\ pending_import' = NULL
            /\ confirm' = FALSE
            /\ log' = backup_db_file \o r.log
            /\ op' = "commit_import"
            /\ UNCHANGED <<boms, bom_items, item_seq, target_bom_id, proj_kwh,
                           proj_years, override_rate, added>>
            /\ out' = Render(parts', bom_items', target_bom_id')

\* lines 461-468: create a BOM with a non-blank name; the rerun resets the
\* BOM id input to its new default, the newest BOM
CreateBom ==
    /\ Cardinality(boms) + item_seq < MaxBomRows
    /\ boms' = boms \cup {create_bom}
    /\ target_bom_id' = create_bom
    /\ log' = backup_db_file \o <<"write">>
    /\ op' = "create_bom"
    /\ UNCHANGED <<parts, part_seq, bom_items, item_seq, pending_import,
                   allow_update, confirm, proj_kwh, proj_years, override_rate,
                   added>>
    /\ out' = Render(parts', bom_items', target_bom_id')

\* lines 479-487: add the selected parts to the target BOM
AddSelected ==
    \E sel_ids \in Selections :
        /\ target_bom_id > 0
        /\ Cardinality(boms) + item_seq + Len(sel_ids) <= MaxBomRows
        /\ bom_items' = add_items(bom_items, item_seq, target_bom_id, sel_ids)
        /\ item_seq' = item_seq + Len(sel_ids)
        /\ added' = added \o [i \in 1..Len(sel_ids) |-> item_seq + i]
        /\ log' = [i \in 1..Len(sel_ids) |-> "write"]
        /\ op' = "add_selected"
        /\ UNCHANGED <<parts, part_seq, boms, pending_import, allow_update,
                       confirm, target_bom_id, proj_kwh, proj_years,
                       override_rate>>
        /\ out' = Render(parts', bom_items', target_bom_id')

\* lines 523-533: the quantity button, rendered below a priced BOM
UpdateQty ==
    \E item_id \in 0..item_seq, new_qty \in QtyEdits :
        /\ Render(parts, bom_items, target_bom_id).status = "priced"
        /\ bom_items' = update_qty(item_id, new_qty)
        /\ out' = Render(parts, bom_items, target_bom_id)
        /\ log' = backup_db_file \o <<"write">>
        /\ op' = "update_qty"
        /\ UNCHANGED <<parts, part_seq, boms, item_seq, pending_import,
                       allow_update, confirm, target_bom_id, proj_kwh,
                       proj_years, override_rate, added>>

\* lines 535-541: the remove button, rendered below a priced BOM
RemoveItem ==
    \E item_id \in 0..item_seq :
        /\ Render(parts, bom_items, target_bom_id).status = "priced"
        /\ bom_items' = remove_item(item_id)
        /\ out' = Render(parts, bom_items, target_bom_id)
        /\ log' = backup_db_file \o <<"write">>
        /\ op' = "remove_item"
        /\ UNCHANGED <<parts, part_seq, boms, item_seq, pending_import,
                       allow_update, confirm, target_bom_id, proj_kwh,
                       proj_years, override_rate, added>>

\* the state after the first script run on a new database
Init ==
    /\ parts = {}
    /\ part_seq = 0
    /\ boms = {}
    /\ bom_items = {}
    /\ item_seq = 0
    /\ pending_import = NULL
    /\ allow_update = FALSE
    /\ confirm = FALSE
    /\ target_bom_id = 0
    /\ proj_kwh = 0
    /\ proj_years = 0
    /\ override_rate = 0
    /\ out = Rendered("no_bom", <<>>, NULL)
    /\ log = <<>>
    /\ op = "start"
    /\ added = <<>>

Next ==
    \/ SetTarget
    \/ SetKwh
    \/ SetYears
    \/ SetOverride
    \/ MasterLoad
    \/ ManualBackup
    \/ NewPartForm
    \/ DeletePart
    \/ CandidateFromFile
    \/ CandidateFromText
    \/ ToggleConfirm
    \/ DiscardCandidate
    \/ CommitImport
    \/ CreateBom
    \/ AddSelected
    \/ UpdateQty
    \/ RemoveItem

\* the whole app; the three specifications below are its parts, each over
\* the handlers of one area
Spec == Init /\ [][Next]_vars

\* the catalogue and BOM handlers, without the ingestion tab
NextStore ==
    \/ SetTarget
    \/ SetOverride
    \/ NewPartForm
    \/ DeletePart
    \/ CreateBom
    \/ AddSelected
    \/ UpdateQty
    \/ RemoveItem

SpecStore == Init /\ [][NextStore]_vars

\* the handlers that fill the catalogue, without the BOM tab
NextIngest ==
    \/ MasterLoad
    \/ ManualBackup
    \/ NewPartForm
    \/ DeletePart
    \/ CandidateFromFile
    \/ CandidateFromText
    \/ ToggleConfirm
    \/ DiscardCandidate
    \/ CommitImport

SpecIngest == Init /\ [][NextIngest]_vars

\* ----------------------------------------------- pricing specification
\* The pricing block over every BOM of at most MaxLines lines on PriceCatalog.
NCat == Len(PriceCatalog)
LineSeqs ==
    UNION {[1..n -> (1..NCat) \X QtyInputs] : n \in 0..MaxLines}

InitPrice ==
    /\ parts = {WithId(PriceCatalog[i], i) : i \in 1..NCat}
    /\ part_seq = NCat
    /\ boms = {1}
    /\ \E ls \in LineSeqs :
          /\ bom_items = {[id |-> i, bomId |-> 1, partId |-> ls[i][1],
                           qty |-> ls[i][2]] : i \in 1..Len(ls)}
          /\ item_seq = Len(ls)
          /\ added = [i \in 1..Len(ls) |-> i]
    /\ pending_import = NULL
    /\ allow_update = TRUE
    /\ confirm = FALSE
    /\ target_bom_id = 1
    /\ proj_kwh = 0
    /\ proj_years = 0
    /\ override_rate = 0
    /\ out = TabBom(parts, bom_items, 1, 0, 0, 0)
    /\ log = <<>>
    /\ op = "start"

NextPrice == SetTarget \/ SetKwh \/ SetYears \/ SetOverride

SpecPrice == InitPrice /\ [][NextPrice]_vars

\* ------------------------------------------------------------- properties
\* d (in 1/One) is a multiple of step nearest to num / den
Nearest(d, step, num, den) ==
    /\ d % step = 0
    /\ 2 * (d * den - num) <= step * den
    /\ 2 * (num - d * den) <= step * den

OutRows == {out.df[i] : i \in 1..Len(out.df)}
Fetched == list_bom_items(parts, bom_items, target_bom_id)
Complete == out.status = "priced" /\ Len(out.df) = Len(Fetched)

\* C1: with proj_kwh > 0 and no override, every per_kwh line (any letter case)
\* shows its own unitPricePerKWh times proj_kwh rounded to 2 decimals; rate
\* 0.05, capacity 1000, quantity 2 gives 50.00 and amount 100.
C1_PerKwhOwnRate ==
    (proj_kwh > 0 /\ override_rate = 0 /\ target_bom_id > 0 /\ Fetched /= <<>>) =>
        /\ Complete
        /\ \A r \in OutRows :
              Lower(AsStr(r.pricingModel)) = "per_kwh" =>
                 /\ r.unitPricePerKWh = NULL => r.displayUnitPrice = NULL
                 /\ r.unitPricePerKWh /= NULL =>
                       /\ r.displayUnitPrice /= NULL
                       /\ Nearest(r.displayUnitPrice[1], PriceStep,
                                  r.unitPricePerKWh[1] * proj_kwh, QtyOne)
                 /\ (/\ r.unitPricePerKWh = Some(Money(5, 100))
                     /\ proj_kwh = Qty(1000, 1)
                     /\ r.qty = Qty(2, 1)) =>
                       /\ r.displayUnitPrice = Some(Money(50, 1))
                       /\ r.amount = 100

C1_Witness ==
    /\ proj_kwh = Qty(1000, 1) /\ override_rate = 0
    /\ \E r \in OutRows :
          /\ r.pricingModel = Some("per_kwh")
          /\ r.unitPricePerKWh = Some(Money(5, 100))
          /\ r.qty = Qty(2, 1)
          /\ r.displayUnitPrice = Some(Money(50, 1))
          /\ r.amount = 100
    /\ \E r \in OutRows :
          /\ r.pricingModel = Some("PER_KWH")
          /\ r.displayUnitPrice /= r.unitPrice

\* C2: with override_rate > 0 and proj_kwh > 0 the pricing completes, every
\* per_kwh line shows override_rate times proj_kwh rounded to 2 decimals, and
\* every other line shows what it shows without the override.
C2_OverrideUniform ==
    (proj_kwh > 0 /\ override_rate > 0 /\ target_bom_id > 0 /\ Fetched /= <<>>) =>
        /\ Complete
        /\ \A i \in 1..Len(out.df) :
              LET r == out.df[i]
              IN  IF Lower(AsStr(r.pricingModel)) = "per_kwh"
                  THEN /\ r.displayUnitPrice /= NULL
                       /\ Nearest(r.displayUnitPrice[1], PriceStep,
                                  override_rate * proj_kwh, QtyOne)
                  ELSE r.displayUnitPrice =
                          displayUnitPrice(Fetched[i], proj_kwh, proj_years)

\* C3: with proj_years > 0 every per_year line (any letter case) shows its
\* unitPricePerYear times proj_years rounded to 2 decimals, whatever proj_kwh
\* and override_rate are; rate 1200, 3 years, quantity 1 gives 3600.00 and 3600.
C3_PerYear ==
    (proj_years > 0 /\ target_bom_id > 0 /\ Fetched /= <<>>) =>
        /\ Complete
        /\ \A r \in OutRows :
              (Lower(AsStr(r.pricingModel)) = "per_year" /\ r.unitPricePerYear /= NULL) =>
                 /\ r.displayUnitPrice /= NULL
                 /\ Nearest(r.displayUnitPrice[1], PriceStep,
                            r.unitPricePerYear[1] * proj_years, QtyOne)
                 /\ (/\ r.unitPricePerYear = Some(Money(1200, 1))
                     /\ proj_years = Qty(3, 1)
                     /\ r.qty = Qty(1, 1)) =>
                       /\ r.displayUnitPrice = Some(Money(3600, 1))
                       /\ r.amount = 3600

\* C4: a line that matches neither scaling rule (fixed, unrecognised or NULL
\* model, per_kwh with proj_kwh = 0, per_year with proj_years = 0) is priced
\* as fixed: it shows its stored unitPrice, NULL staying NULL with amount 0,
\* and the batch it is in is priced.
Unscaled(r) ==
    /\ ~(Lower(AsStr(r.pricingModel)) = "per_kwh" /\ proj_kwh > 0)
    /\ ~(Lower(AsStr(r.pricingModel)) = "per_year" /\ proj_years > 0)

C4_FallThroughFixed ==
    (target_bom_id > 0 /\ \E i \in 1..Len(Fetched) : Unscaled(Fetched[i])) =>
        /\ Complete
        /\ \A i \in 1..Len(Fetched) :
              Unscaled(Fetched[i]) =>
                 /\ out.df[i].itemId = Fetched[i].itemId
                 /\ out.df[i].displayUnitPrice = Fetched[i].unitPrice
                 /\ Fetched[i].unitPrice = NULL => out.df[i].amount = 0

RECURSIVE SumOver(_, _)
SumOver(f, n) == IF n = 0 THEN 0 ELSE f[n] + SumOver(f, n - 1)

C6_TotalIsSum ==
    target_bom_id \in boms =>
        /\ out.total /= NULL
        /\ Len(out.df) = Len(Fetched)
        /\ out.total[1] = SumOver([i \in 1..Len(out.df) |-> out.df[i].amount],
                                  Len(out.df))

\* C7: list_bom_items returns, for every BOM, the lines that survive (not
\* removed, their part not deleted) in the order add_item made them, whatever
\* update_qty did; the priced lines and the export rows keep that order, one
\* output row per fetched line.
ItemIds(df) == [i \in 1..Len(df) |-> df[i].itemId]

Surviving(b) ==
    LET Alive(id) == \E bi \in bom_items :
                        /\ bi.id = id
                        /\ bi.bomId = b
                        /\ \E p \in parts : p.id = bi.partId
    IN  SelectSeq(added, Alive)

Ascending(ids) ==
    \A i, j \in 1..Len(ids) :
        i < j => \E m, n \in 1..Len(added) :
                    m < n /\ added[m] = ids[i] /\ added[n] = ids[j]

C8_NoOrphanItem ==
    \A bi \in bom_items : \E p \in parts : p.id = bi.partId

\* C9: in every handler that writes to the database, backup_db_file runs
\* before the first write.
C9_BackupBeforeWrite ==
    \A i \in 1..Len(log) :
        log[i] = "write" => \E j \in 1..(i - 1) : log[j] = "backup"

\* C10: creating a candidate changes pending_import and leaves parts alone;
\* discarding one clears pending_import and leaves parts alone; the
\* ingestion tab calls insert_parts only with confirm checked, on the rows of
\* the pending candidate.
StripId(p) == Row(p.partNo, p.description, p.pricingModel, p.unitPrice,
                  p.unitPricePerKWh, p.unitPricePerYear)

C10_Step ==
    /\ (pending_import' /= pending_import /\ pending_import' /= NULL) =>
          /\ parts' = parts
          /\ part_seq' = part_seq
          /\ ~(\E i \in 1..Len(log') : log'[i] \in {"insert_parts", "write"})
    /\ op' = "discard" =>
          /\ pending_import' = NULL
          /\ parts' = parts
          /\ part_seq' = part_seq
    /\ (op' = "commit_import" /\ \E i \in 1..Len(log') : log'[i] = "insert_parts") =>
          /\ pending_import /= NULL
          /\ confirm
          /\ {StripId(p) : p \in parts' \ parts} \subseteq
                {pending_import[1][i] : i \in 1..Len(pending_import[1])}

C11_DedupKey ==
    /\ \A p, q \in parts : p.id /= q.id => KeyOf(p) /= KeyOf(q)
    /\ \A df \in Frames(StoreRows, 0), chk \in BOOLEAN :
          LET r == insert_parts(df, chk)
          IN  /\ r.n = Cardinality(r.parts) - Cardinality(parts)
              /\ r.n = r.part_seq - part_seq

\* C12: when the commit handler clears pending_import, every row of the
\* candidate is in parts, inserted now or present before under its key; also
\* on the first commit of a session, with allow_update still false.
C12_Step ==
    (op' = "commit_import" /\ pending_import /= NULL /\ pending_import' = NULL) =>
        \A i \in 1..Len(pending_import[1]) :
            \E p \in parts' : KeyOf(p) = KeyOf(pending_import[1][i])

C12_CommitWrites == [][C12_Step]_vars

====
